---- MODULE Spec2Model ----
(***************************************************************************)
(* Model of the uint-zigzag crate (src/src/lib.rs): the continuation-bit   *)
(* variable-length codec of Uint(u128) -- to_bytes_with_length, to_bytes,  *)
(* to_vec, peek, TryFrom<&[u8]> -- the stream adapters to_writer and       *)
(* from_reader, and the Product reduction.                                 *)
(*                                                                         *)
(* A u128 is represented by the set of its set bit positions (a subset of  *)
(* 0..127), so that shifts, masks and ors are computed at full width       *)
(* without leaving the range of the model checker's integers.  A u8 is an  *)
(* integer in 0..255.                                                      *)
(***************************************************************************)
EXTENDS Integers, Sequences, FiniteSets, TLC

VARIABLES
    mode,      \* "enc": a value is encoded first; "raw": a caller-supplied slice
    pc,        \* position of the codec scenario
    val,       \* the Uint being encoded (self.0)
    buffer,    \* the caller's buffer (&mut [u8])
    buffer0,   \* the buffer's content before the encoding call
    ret,       \* what the encoding call returned
    slice,     \* the &[u8] handed to peek and try_from
    peeked,    \* result of peek(slice)
    decoded,   \* result of Uint::try_from(slice)
    chan,      \* bytes accepted so far by the writer's byte channel
    pos,       \* the reader's cursor into chan
    wlog,      \* the to_writer calls made so far
    rlog,      \* the from_reader calls made so far
    items,     \* the sequence handed to Product
    prod,      \* result of the Product call
    ppc        \* position of the product scenario

vars == <<mode, pc, val, buffer, buffer0, ret, slice, peeked, decoded,
          chan, pos, wlog, rlog, items, prod, ppc>>

codecVars == <<mode, pc, val, buffer, buffer0, ret, slice, peeked, decoded>>
streamVars == <<chan, pos, wlog, rlog>>
productVars == <<items, prod, ppc>>

----------------------------------------------------------------------------
(* Bounds of the model *)

MaxSliceLen == 2     \* raw slices up to this length are enumerated exhaustively
ExtraLen == 2        \* raw slices and buffers reach MAX_BYTES + ExtraLen bytes
MaxWrites == 2       \* to_writer calls per behaviour
MaxReads == 2        \* from_reader calls per behaviour
MaxItems == 3        \* length of the sequences handed to Product
MaxItem == 4         \* largest element handed to Product

----------------------------------------------------------------------------
(* Fixed-width integers *)

MAX_BYTES == 19

U128 == 0..127

ZeroU128 == {}

Bit(S, k) == IF k \in S THEN 1 ELSE 0

\* a u8 widened to u128 (`as u128`)
ByteBits(b) == {k \in 0..7 : (b \div (2^k)) % 2 = 1}

\* `x as u8`: the low eight bits of a u128
AsU8(x) == Bit(x, 0) + 2 * Bit(x, 1) + 4 * Bit(x, 2) + 8 * Bit(x, 3)
           + 16 * Bit(x, 4) + 32 * Bit(x, 5) + 64 * Bit(x, 6) + 128 * Bit(x, 7)

\* a small non-negative integer literal as u128
NatBits(m) == {k \in 0..30 : (m \div (2^k)) % 2 = 1}

Shr(x, s) == {k - s : k \in {j \in x : j >= s}}

\* `<<` on u128: bits moved past bit 127 are dropped
Shl(x, s) == {k + s : k \in x} \cap U128

BitOr(x, y) == x \cup y

ByteOr(a, b) == AsU8(ByteBits(a) \cup ByteBits(b))

ByteAnd(a, b) == AsU8(ByteBits(a) \cap ByteBits(b))

\* x >= 0x80 on u128
Ge0x80(x) == \E k \in x : k >= 7

\* carry into bit k of a + b: some lower bit generates it and every bit between passes it on
Carry(a, b, k) ==
    \E j \in 0..(k - 1) :
        /\ j \in a /\ j \in b
        /\ \A m \in (j + 1)..(k - 1) : m \in a \/ m \in b

\* `+` on u128; an overflowing sum keeps its low 128 bits
wrapping_add(a, b) ==
    {k \in U128 : (Bit(a, k) + Bit(b, k) + (IF Carry(a, b, k) THEN 1 ELSE 0)) % 2 = 1}

RECURSIVE MulLoop(_, _, _)
MulLoop(a, b, acc) ==
    IF b = {} THEN acc
    ELSE LET k == CHOOSE k \in b : \A j \in b : k <= j
         IN  MulLoop(a, b \ {k}, wrapping_add(acc, Shl(a, k)))

\* `*` on u128; an overflowing product keeps its low 128 bits
wrapping_mul(a, b) == MulLoop(a, b, ZeroU128)

----------------------------------------------------------------------------
(* Results *)

Unset == [tag |-> "unset", n |-> 0]
None == [tag |-> "None", n |-> 0]
Some(k) == [tag |-> "Some", n |-> k]

NoResult == [tag |-> "unset", v |-> {}, kind |-> "", msg |-> ""]
Ok(x) == [tag |-> "Ok", v |-> x, kind |-> "", msg |-> ""]
Err(m) == [tag |-> "Err", v |-> {}, kind |-> "", msg |-> m]
IoErr(k, m) == [tag |-> "Err", v |-> {}, kind |-> k, msg |-> m]
Uint(x) == [tag |-> "Uint", v |-> x, kind |-> "", msg |-> ""]

NoRet == [tag |-> "unset", n |-> 0]
Returned(k) == [tag |-> "usize", n |-> k]
UnitRet == [tag |-> "unit", n |-> 0]
VecRet(k) == [tag |-> "vec", n |-> k]
Panicked == [tag |-> "panic", n |-> 0]

----------------------------------------------------------------------------
(* impl TryFrom<&[u8]> for Uint *)

TryFromInRangeInclusive(i) == i <= MAX_BYTES

TryFromInRange(i) == i < MAX_BYTES

TryFromIsLast(b) == b < 128

TryFromGroupUnmasked(b) == ByteBits(b)

TryFromGroup(b) == ByteBits(ByteAnd(b, 127))

RECURSIVE TryFromLoop(_, _, _, _)
TryFromLoop(value, x, s, i) ==
    IF TryFromInRange(i)
    THEN IF i >= Len(value)
         THEN Err("invalid byte sequence")
         ELSE IF TryFromIsLast(value[i + 1])
              THEN Ok(BitOr(x, Shl(ByteBits(value[i + 1]), s)))
              ELSE TryFromLoop(value, BitOr(x, Shl(TryFromGroup(value[i + 1]), s)),
                               s + 7, i + 1)
    ELSE Err("invalid byte sequence")

try_from(value) == TryFromLoop(value, ZeroU128, 0, 0)

----------------------------------------------------------------------------
(* Uint::peek *)

PeekIsLastInclusive(b) == b <= 128

PeekIsLast(b) == b < 128

RECURSIVE PeekLoop(_, _)
PeekLoop(value, i) ==
    IF i < MAX_BYTES
    THEN IF i >= Len(value)
         THEN None
         ELSE IF PeekIsLast(value[i + 1])
              THEN Some(i + 1)
              ELSE PeekLoop(value, i + 1)
    ELSE None

peek(value) == PeekLoop(value, 0)

----------------------------------------------------------------------------
(* Uint::to_bytes_with_length, to_bytes, to_vec *)

Gt0x80(x) == (\E k \in x : k >= 8) \/ (7 \in x /\ \E k \in x : k < 7)

EncContinuesStrict(x) == Gt0x80(x)

EncContinues(x) == Ge0x80(x)

EncShiftByte(x) == Shr(x, 8)

EncShift(x) == Shr(x, 7)

\* an index past the end of the buffer panics; the bytes already stored stay
RECURSIVE EncLoop(_, _, _)
EncLoop(x, buf, i) ==
    IF i >= Len(buf)
    THEN [panic |-> TRUE, buffer |-> buf, n |-> i]
    ELSE IF EncContinues(x)
         THEN EncLoop(EncShift(x), [buf EXCEPT ![i + 1] = ByteOr(AsU8(x), 128)], i + 1)
         ELSE [panic |-> FALSE, buffer |-> [buf EXCEPT ![i + 1] = AsU8(x)], n |-> i + 1]

to_bytes_with_length_cleared(self, buf) == EncLoop(self, [j \in 1..Len(buf) |-> 0], 0)

to_bytes_with_length(self, buf) == EncLoop(self, buf, 0)

to_bytes(self, buf) == to_bytes_with_length(self, buf)

ZeroArray == [j \in 1..MAX_BYTES |-> 0]

to_vec(self) ==
    LET r == to_bytes_with_length(self, ZeroArray)
    IN  SubSeq(r.buffer, 1, r.n)

----------------------------------------------------------------------------
(* Inputs of the codec scenario *)

Ones(k) == 0..(k - 1)

\* 2^k - 1 and 2^k for every k, the documented examples, and mixed patterns
Values ==
    {Ones(k) : k \in 0..128} \cup {{k} : k \in U128}
    \cup {NatBits(345678), NatBits(2048), NatBits(300), NatBits(16384)}
    \cup {{k \in U128 : k % 2 = 0}, {k \in U128 : k % 7 = 6}, {k \in U128 : k % 3 # 1}}

Fills == {0, 255}

Capacities == {1, 2, 3, MAX_BYTES - 1, MAX_BYTES, MAX_BYTES + ExtraLen}

Buffers == {[j \in 1..c |-> f] : c \in Capacities, f \in Fills}

ByteSamples == {0, 1, 3, 4, 127, 128, 129, 255}

RECURSIVE SeqsUpTo(_, _)
SeqsUpTo(S, k) ==
    IF k = 0 THEN {<<>>}
    ELSE LET shorter == SeqsUpTo(S, k - 1)
         IN  shorter \cup {Append(q, b) : q \in shorter, b \in S}

ShortSlices == SeqsUpTo(ByteSamples, MaxSliceLen)

\* k bytes with the continuation bit set, then a short tail
LongSlices ==
    {[j \in 1..k |-> c] \o t :
        c \in {128, 255, 170}, k \in 0..(MAX_BYTES + ExtraLen), t \in SeqsUpTo(ByteSamples, 2)}

Slices == ShortSlices \cup LongSlices

----------------------------------------------------------------------------
(* The codec scenario: a value is encoded into a buffer and the bytes it   *)
(* used are peeked and decoded, or a raw slice is peeked and decoded.      *)

StreamIdle ==
    /\ chan = <<>>
    /\ pos = 0
    /\ wlog = <<>>
    /\ rlog = <<>>

ProductIdle ==
    /\ items = <<>>
    /\ prod = NoResult
    /\ ppc = "off"

CodecIdle ==
    /\ mode = "off"
    /\ pc = "off"
    /\ val = ZeroU128
    /\ buffer = <<>>
    /\ buffer0 = <<>>
    /\ ret = NoRet
    /\ slice = <<>>
    /\ peeked = Unset
    /\ decoded = NoResult

InitCodec ==
    /\ \/ /\ mode = "enc"
          /\ pc = "start"
          /\ val \in Values
          /\ buffer \in Buffers
          /\ slice = <<>>
       \/ /\ mode = "raw"
          /\ pc = "ready"
          /\ val = ZeroU128
          /\ buffer = <<>>
          /\ slice \in Slices
    /\ buffer0 = buffer
    /\ ret = NoRet
    /\ peeked = Unset
    /\ decoded = NoResult
    /\ StreamIdle
    /\ ProductIdle

\* let n = value.to_bytes_with_length(&mut buffer); the caller then uses buffer[..n]
ToBytesWithLength ==
    /\ pc = "start"
    /\ LET r == to_bytes_with_length(val, buffer)
       IN  /\ buffer' = r.buffer
           /\ ret' = IF r.panic THEN Panicked ELSE Returned(r.n)
           /\ slice' = IF r.panic THEN <<>> ELSE SubSeq(r.buffer, 1, r.n)
           /\ pc' = IF r.panic THEN "panicked" ELSE "ready"
    /\ buffer0' = buffer
    /\ UNCHANGED <<mode, val, peeked, decoded>>
    /\ UNCHANGED <<streamVars, productVars>>

\* value.to_bytes(&mut buffer); the length is not returned
ToBytes ==
    /\ pc = "start"
    /\ LET r == to_bytes(val, buffer)
       IN  /\ buffer' = r.buffer
           /\ ret' = IF r.panic THEN Panicked ELSE UnitRet
           /\ pc' = IF r.panic THEN "panicked" ELSE "done"
    /\ buffer0' = buffer
    /\ UNCHANGED <<mode, val, slice, peeked, decoded>>
    /\ UNCHANGED <<streamVars, productVars>>

\* let out = value.to_vec(); the caller's buffer is not involved
ToVec ==
    /\ pc = "start"
    /\ slice' = to_vec(val)
    /\ ret' = VecRet(Len(slice'))
    /\ pc' = "ready"
    /\ UNCHANGED <<mode, val, buffer, buffer0, peeked, decoded>>
    /\ UNCHANGED <<streamVars, productVars>>

Peek ==
    /\ pc = "ready"
    /\ peeked = Unset
    /\ peeked' = peek(slice)
    /\ UNCHANGED <<mode, pc, val, buffer, buffer0, ret, slice, decoded>>
    /\ UNCHANGED <<streamVars, productVars>>

TryFrom ==
    /\ pc = "ready"
    /\ decoded = NoResult
    /\ decoded' = try_from(slice)
    /\ UNCHANGED <<mode, pc, val, buffer, buffer0, ret, slice, peeked>>
    /\ UNCHANGED <<streamVars, productVars>>

NextCodec ==
    \/ ToBytesWithLength
    \/ ToBytes
    \/ ToVec
    \/ Peek
    \/ TryFrom

SpecCodec == InitCodec /\ [][NextCodec]_vars

----------------------------------------------------------------------------
(* Properties of the codec *)

\* the least n >= 1 with V < 2^(7n)
EncodedLen(V) == CHOOSE n \in 1..MAX_BYTES :
                    /\ V \subseteq 0..(7 * n - 1)
                    /\ \A m \in 1..(n - 1) : ~(V \subseteq 0..(7 * m - 1))

\* (V >> 7i) mod 128
Group(V, i) == AsU8({k \in 0..6 : (7 * i + k) \in V})

\* (sum over i < n of (b[i] & 0x7f) * 2^(7i)) mod 2^128
DecodedValue(b, n) == {p \in U128 : p \div 7 < n /\ (p % 7) \in ByteBits(b[(p \div 7) + 1])}

Encoded == mode = "enc" /\ pc = "ready"

\* C1: round-trip -- decoding the bytes buffer[0..n) that to_bytes_with_length
\* produced for V returns Ok(Uint(V)), for every V in 0..2^128-1.
C1_RoundTrip ==
    (Encoded /\ decoded # NoResult) => decoded = Ok(val)

C1_Witness ==
    /\ Encoded
    /\ Len(buffer) = MAX_BYTES
    /\ ret = Returned(MAX_BYTES)
    /\ val = Ones(128)
    /\ decoded = Ok(val)

\* C3: the encoder's output is the canonical minimal encoding: n is the least
\* n >= 1 with V < 2^(7n), byte i < n-1 is ((V >> 7i) mod 128) + 128, the last
\* byte is V >> 7(n-1), and the documented examples come out as documented.
C3_Canonical ==
    Encoded =>
        /\ ret.tag \in {"usize", "vec"}
        /\ ret.n = EncodedLen(val)
        /\ Len(slice) = ret.n
        /\ ret.n >= 1 /\ ret.n <= MAX_BYTES
        /\ \A i \in 0..(ret.n - 2) : slice[i + 1] = Group(val, i) + 128
        /\ slice[ret.n] = Group(val, ret.n - 1) + 128 * Bit(val, 7 * ret.n)
        /\ slice[ret.n] < 128
        /\ (Ge0x80(val) <=> ret.n > 1)
        /\ (val = Ones(128) => ret.n = MAX_BYTES)
        /\ (val = ZeroU128 => slice = <<0>>)
        /\ (val = NatBits(127) => slice = <<127>>)
        /\ (val = NatBits(128) => slice = <<128, 1>>)
        /\ (val = NatBits(2048) => slice = <<128, 16>>)
        /\ (val = NatBits(345678) => slice = <<206, 140, 21>>)

C3_Witness ==
    /\ Encoded
    /\ val = NatBits(345678)
    /\ ret = Returned(3)
    /\ slice = <<206, 140, 21>>

\* C4: peek agreement -- peek of an encoding of length n is Some(n), peek of
\* every strict prefix of it is None, and every byte but the last has 0x80 set.
C4_PeekAgreement ==
    (Encoded /\ peeked # Unset) =>
        /\ peeked = Some(ret.n)
        /\ \A m \in 0..(ret.n - 1) : peek(SubSeq(slice, 1, m)) = None
        /\ \A j \in 1..(ret.n - 1) : slice[j] >= 128
        /\ slice[ret.n] < 128

C4_Witness ==
    /\ Encoded
    /\ val = {127}
    /\ peeked = Some(MAX_BYTES)
    /\ slice[1] = 128

NoByteClear(b) ==
    \A j \in 1..(IF Len(b) < MAX_BYTES THEN Len(b) ELSE MAX_BYTES) : b[j] >= 128

\* C5: framing errors of decode mirror peek -- try_from fails with "invalid
\* byte sequence" exactly when peek is None, exactly when none of the first
\* min(len, 19) bytes has the continuation bit clear.
C5_FramingMirror ==
    (pc = "ready" /\ peeked # Unset /\ decoded # NoResult) =>
        /\ (decoded = Err("invalid byte sequence")) <=> (peeked = None)
        /\ (peeked = None) <=> NoByteClear(slice)
        /\ decoded.tag \in {"Ok", "Err"}
        /\ peeked.tag = "Some" => peeked.n \in 1..MAX_BYTES
        /\ decoded.tag = "Err" => decoded = Err("invalid byte sequence")

C5_Witness ==
    /\ mode = "raw"
    /\ Len(slice) > MAX_BYTES
    /\ NoByteClear(slice)
    /\ slice[MAX_BYTES + 1] < 128
    /\ peeked = None
    /\ decoded = Err("invalid byte sequence")

\* C9: decode value and truncation -- when peek(b) = Some(n), try_from(b) is
\* Ok of the sum of (b[i] & 0x7f) * 2^(7i) over i < n, modulo 2^128; bytes at
\* index >= n play no part, and non-minimal encodings are accepted.
C9_DecodeValue ==
    (pc = "ready" /\ peeked.tag = "Some" /\ decoded # NoResult) =>
        /\ decoded = Ok(DecodedValue(slice, peeked.n))
        /\ try_from(SubSeq(slice, 1, peeked.n)) = decoded
        /\ (slice = <<128, 0>> => decoded = Ok(ZeroU128))

C9_Witness ==
    /\ mode = "raw"
    /\ peeked = Some(MAX_BYTES)
    /\ Len(slice) > MAX_BYTES
    /\ slice[MAX_BYTES] = 127
    /\ decoded = Ok(Ones(128))

\* C10: frame of encode -- to_bytes / to_bytes_with_length into a buffer of
\* capacity >= n change only buffer[0..n) and leave the value as it was.
C10_Frame ==
    [][(pc = "start" /\ ret'.tag \in {"usize", "unit"}) =>
          /\ Len(buffer') = Len(buffer)
          /\ \A j \in (EncodedLen(val) + 1)..Len(buffer) : buffer'[j] = buffer[j]
          /\ val' = val
          /\ ((val = NatBits(127) /\ buffer = <<0, 0>>) => buffer' = <<127, 0>>)]_vars

C10_Witness ==
    /\ pc = "done"
    /\ ret = UnitRet
    /\ val = NatBits(128)
    /\ Len(buffer) = MAX_BYTES + ExtraLen
    /\ buffer0[3] = 255
    /\ buffer = <<128, 1>> \o SubSeq(buffer0, 3, Len(buffer0))

----------------------------------------------------------------------------
(* Uint::to_writer and Uint::from_reader over a byte channel *)

\* Write::write(&data) may accept any prefix of the data, or fail
WriteOutcomes(data) ==
    {[tag |-> "Ok", k |-> k] : k \in 0..Len(data)} \cup {[tag |-> "Err", k |-> 0]}

to_writer(self) ==
    LET r == to_bytes_with_length(self, ZeroArray)
    IN  SubSeq(r.buffer, 1, r.n)

UnexpectedEof == IoErr("UnexpectedEof", "failed to fill whole buffer")

\* Read::read_exact of one byte at cursor p of the source
ReadExact(src, p) ==
    IF p < Len(src)
    THEN [ok |-> TRUE, byte |-> src[p + 1], pos |-> p + 1]
    ELSE [ok |-> FALSE, byte |-> 0, pos |-> p]

PropagateAsInvalidData(e) == IoErr("InvalidData", "invalid byte sequence")

\* the `?` after read_exact hands the reader's error to the caller
Propagate(e) == e

\* map_err(|m| Error::new(ErrorKind::InvalidData, m))
MapErr(r) == IF r.tag = "Err" THEN IoErr("InvalidData", r.msg) ELSE r

FromReaderFinish(output, i) ==
    IF i = MAX_BYTES
    THEN IoErr("InvalidData", "invalid byte sequence")
    ELSE MapErr(try_from(SubSeq(output, 1, i)))

\* the bytes peek is given after output[i] has been read
PeekWindow(output, i) == SubSeq(output, 1, i)

RECURSIVE FromReaderLoop(_, _, _, _)
FromReaderLoop(src, p, output, i) ==
    IF i < MAX_BYTES
    THEN LET rd == ReadExact(src, p)
         IN  IF ~rd.ok
             THEN [res |-> Propagate(UnexpectedEof), pos |-> rd.pos]
             ELSE LET out1 == [output EXCEPT ![i + 1] = rd.byte]
                  IN  IF peek(PeekWindow(out1, i)).tag = "Some"
                      THEN [res |-> FromReaderFinish(out1, i), pos |-> rd.pos]
                      ELSE FromReaderLoop(src, rd.pos, out1, i + 1)
    ELSE [res |-> FromReaderFinish(output, i), pos |-> p]

from_reader(src, p) == FromReaderLoop(src, p, ZeroArray, 0)

\* one-byte, two-byte and full 19-byte encodings
StreamValues == {ZeroU128, NatBits(5), NatBits(128), Ones(128)}

\* what to_writer hands to the sink for each value
Written == [v \in StreamValues |-> to_writer(v)]

InitStream ==
    /\ StreamIdle
    /\ CodecIdle
    /\ ProductIdle

ToWriter(v, w) ==
    /\ Len(wlog) < MaxWrites
    /\ LET data == Written[v]
       IN  /\ w \in WriteOutcomes(data)
           /\ chan' = chan \o SubSeq(data, 1, w.k)
           /\ wlog' = Append(wlog, [v |-> v, n |-> Len(data), tag |-> w.tag, k |-> w.k,
                                    at |-> Len(chan)])
    /\ UNCHANGED <<pos, rlog>>
    /\ UNCHANGED <<codecVars, productVars>>

FromReader ==
    /\ Len(rlog) < MaxReads
    /\ LET r == from_reader(chan, pos)
       IN  /\ pos' = r.pos
           /\ rlog' = Append(rlog, [res |-> r.res, from |-> pos, to |-> r.pos,
                                    len |-> Len(chan)])
    /\ UNCHANGED <<chan, wlog>>
    /\ UNCHANGED <<codecVars, productVars>>

NextStream ==
    \/ \E v \in StreamValues : \E w \in WriteOutcomes(Written[v]) : ToWriter(v, w)
    \/ FromReader

SpecStream == InitStream /\ [][NextStream]_vars

----------------------------------------------------------------------------
(* Properties of the stream adapters *)

Reads == 1..Len(rlog)
Writes == 1..Len(wlog)

WholeWrite(w) == wlog[w].tag = "Ok" /\ wlog[w].k = wlog[w].n

\* the bytes the reader still held when call r began
Remaining(r) == SubSeq(chan, rlog[r].from + 1, rlog[r].len)

\* C2: stream symmetry -- V written whole by to_writer and read back by
\* from_reader from a reader over exactly those bytes gives Ok(Uint(V)).
C2_StreamSymmetry ==
    \A r \in Reads : \A w \in Writes :
        (/\ WholeWrite(w)
         /\ rlog[r].from = wlog[w].at
         /\ rlog[r].len = wlog[w].at + wlog[w].n)
        => rlog[r].res = Ok(wlog[w].v)

\* C6: truncated stream -- when the reader's bytes run out before a byte with
\* the continuation bit clear has been read, from_reader returns the reader's
\* own unexpected-end-of-input error, never Ok and never InvalidData.
C6_TruncatedAnyLength ==
    \A r \in Reads :
        (/\ rlog[r].to = rlog[r].len
         /\ \A j \in (rlog[r].from + 1)..rlog[r].to : chan[j] >= 128)
        => rlog[r].res = UnexpectedEof

\* C6 (amended): when the reader holds fewer than 19 bytes and none of them
\* has the continuation bit clear (an empty source included), from_reader
\* consumes them all and returns the reader's own unexpected-end-of-input
\* error; when its first 19 bytes all have the continuation bit set it
\* returns InvalidData "invalid byte sequence" after reading those 19.
C6_TruncatedStream ==
    \A r \in Reads :
        /\ (/\ Len(Remaining(r)) < MAX_BYTES
            /\ \A j \in 1..Len(Remaining(r)) : Remaining(r)[j] >= 128)
           => (rlog[r].res = UnexpectedEof /\ rlog[r].to = rlog[r].len)
        /\ (/\ Len(Remaining(r)) >= MAX_BYTES
            /\ \A j \in 1..MAX_BYTES : Remaining(r)[j] >= 128)
           => (/\ rlog[r].res = IoErr("InvalidData", "invalid byte sequence")
               /\ rlog[r].to = rlog[r].from + MAX_BYTES)

C6_Witness ==
    \E r \in Reads :
        /\ Len(Remaining(r)) = MAX_BYTES - 1
        /\ \A j \in 1..Len(Remaining(r)) : Remaining(r)[j] >= 128
        /\ rlog[r].res = UnexpectedEof
        /\ rlog[r].to = rlog[r].len

\* C7: from_reader stops at the byte whose continuation bit is clear -- on a
\* source that starts with a complete encoding of length n it consumes
\* exactly n bytes in at most 19 reads, so that V1 and V2 written back to
\* back are returned by two successive calls.
C7_ConsumesExactly ==
    /\ \A r \in Reads :
          LET p == peek(Remaining(r))
          IN  p.tag = "Some" =>
                 /\ rlog[r].to = rlog[r].from + p.n
                 /\ rlog[r].to - rlog[r].from <= MAX_BYTES
    /\ \A r \in Reads : \A w \in Writes :
          (/\ r + 1 \in Reads
           /\ w + 1 \in Writes
           /\ WholeWrite(w) /\ WholeWrite(w + 1)
           /\ rlog[r].from = wlog[w].at
           /\ rlog[r].len >= wlog[w + 1].at + wlog[w + 1].n)
          => (rlog[r].res = Ok(wlog[w].v) /\ rlog[r + 1].res = Ok(wlog[w + 1].v))

----------------------------------------------------------------------------
(* impl Product for Uint, impl Product<$tt> for Uint *)

RECURSIVE ProductLoop(_, _)
ProductLoop(iter, i) ==
    IF iter = <<>> THEN i
    ELSE ProductLoop(Tail(iter), wrapping_mul(i, Head(iter)))

\* Product over Uint values: i *= v.0
product(iter) == Uint(ProductLoop(iter, ZeroU128))

\* Product over raw u8 values: i *= v as u128
product_u8(iter) == Uint(ProductLoop([j \in 1..Len(iter) |-> ByteBits(iter[j])], ZeroU128))

ItemSeqs == SeqsUpTo(0..MaxItem, MaxItems)

InitProduct ==
    /\ items \in ItemSeqs
    /\ prod = NoResult
    /\ ppc = "start"
    /\ StreamIdle
    /\ CodecIdle

\* iter.map(Uint::from).product::<Uint>()
ProductOfUints ==
    /\ ppc = "start"
    /\ prod' = product([j \in 1..Len(items) |-> NatBits(items[j])])
    /\ ppc' = "done"
    /\ UNCHANGED items
    /\ UNCHANGED <<codecVars, streamVars>>

\* iter.product::<Uint>() over u8 items
ProductOfRaw ==
    /\ ppc = "start"
    /\ prod' = product_u8(items)
    /\ ppc' = "done_raw"
    /\ UNCHANGED items
    /\ UNCHANGED <<codecVars, streamVars>>

NextProduct ==
    \/ ProductOfUints
    \/ ProductOfRaw

SpecProduct == InitProduct /\ [][NextProduct]_vars

RECURSIVE MathProduct(_)
MathProduct(q) == IF q = <<>> THEN 1 ELSE Head(q) * MathProduct(Tail(q))

\* C8: Product over a sequence of Uint values, or of raw integers, returns
\* the product of the elements whenever it fits in 128 bits; the product of
\* [a] is a and the product of [2, 3] is 6.
C8_Product ==
    (ppc \in {"done", "done_raw"} /\ Len(items) >= 1) =>
        prod = Uint(NatBits(MathProduct(items)))

====
